---- MODULE Spec2Model ----
(***************************************************************************)
(* The build-sign-submit pipeline of the dex server: the transaction       *)
(* registry, Service.fetchSwap / buildSwapResponseWithRebuild,             *)
(* Service.signAndSendTransaction with its rebuild path,                   *)
(* TransferService.getTransfer and the per-user swap stream of             *)
(* SwapService.  Every action is one run of a handler between two          *)
(* suspension points (await) of the single-threaded event loop.            *)
(***************************************************************************)
EXTENDS Integers, FiniteSets, Sequences, TLC

(* ------------------------------ bounds --------------------------------- *)
\* largest MAX_BUILD_ATTEMPTS the live config takes
MaxMBA == 3
\* number of streams StartSwapStream creates in one behaviour
MaxStreams == 1

(* ------------------------- program constants --------------------------- *)
\* enum TransactionType
BUY == 1
SELL_PARTIAL == 2
SELL_ALL == 3
TRANSFER == 4

SwapTypes == {BUY, SELL_PARTIAL, SELL_ALL}

\* slippageBps?: number -- the value of an absent optional field
Undefined == -1

\* JavaScript truthiness of an optional number: undefined and 0 are falsy
Truthy(x) == x # Undefined /\ x # 0

(* ------------------------------ config --------------------------------- *)
\* The fields of Config the pipeline reads.  config() resolves to the live
\* config, which is reloaded at any time: every read of it yields any of
\* these values.  MIN_SLIPPAGE_BPS and USER_SLIPPAGE_BPS_MAX are kept fixed;
\* MAX_BUILD_ATTEMPTS and AUTO_SLIPPAGE differ from one read to the next.
Configs ==
    [MAX_BUILD_ATTEMPTS : 1..MaxMBA, AUTO_SLIPPAGE : BOOLEAN,
     MIN_SLIPPAGE_BPS : {2}, USER_SLIPPAGE_BPS_MAX : {3}]

\* entry.cfg of an entry registered without a snapshot (transfers)
NoCfg == [absent |-> TRUE]

(* ------------------------------ requests ------------------------------- *)
\* slippageBps of a fetchSwap request: unset, 0, a valid value, a value
\* above USER_SLIPPAGE_BPS_MAX
SlippageChoices == {Undefined, 0, 2, 4}

\* ActiveSwapRequest, reduced to the field the rebuild policy reads
Requests == [slippageBps : SlippageChoices]

\* the stream procedures of the router take no slippageBps
StreamRequests == [slippageBps : {Undefined}]

\* nor does the fetchPresignedSwap procedure
PresignedRequests == [slippageBps : {Undefined}]

\* requests of a stream and of its updates that differ in what they sell
StreamUpdateRequests == [slippageBps : {Undefined}, sellQuantity : {15, 100}]

\* entry.activeSwapRequest of an entry registered without one (transfers)
NoRequest == [absent |-> TRUE]

\* the result of a registry lookup that misses
NoEntry == [absent |-> TRUE]

(* ------------------------------- calls --------------------------------- *)
\* The invocations of one behaviour: one fetchSwap, two
\* signAndSendTransaction, one stream tick, one getTransfer.
FetchCalls == {"f1"}
SasCalls == {"s1", "s2"}
TickCalls == {"t1"}
\* the tick of the same interval that fires after the tick of TickCalls
LaterTickCalls == {"t2"}
AllTickCalls == TickCalls \cup LaterTickCalls
TransferCalls == {"x1"}
PresignedCalls == {"p1"}
StartCalls == {"a1", "a2"}
StopCalls == {"q1"}
UpdateCalls == {"w1"}
Calls == FetchCalls \cup SasCalls \cup AllTickCalls \cup TransferCalls
            \cup PresignedCalls \cup StartCalls \cup StopCalls \cup UpdateCalls

\* A call registers at most one compiled message; the key of the message a
\* call registers is named after the call.
Keys == Calls

\* A logical request chain starts with a fetchSwap, with a stream tick or
\* with the fetchSwap of a fetchPresignedSwap or of an updateSwapRequest.
Chains == FetchCalls \cup AllTickCalls \cup PresignedCalls \cup UpdateCalls

Users == {"u1"}

\* no QuoteGetRequest sent yet, no instruction list organized yet
NoQuote == [absent |-> TRUE]
NoMessage == [absent |-> TRUE]

\* the locals of getTransfer before its first RPC answer
NoTransfer == [absent |-> TRUE]

IdleCall ==
    [pc |-> "idle", key |-> "none", entry |-> NoEntry, cfg |-> NoCfg,
     request |-> NoRequest, buildCfg |-> NoCfg, buildAttempt |-> 0,
     chain |-> "none", nbuilds |-> 0, nfails |-> 0, result |-> "none",
     respKey |-> "none", stream |-> 0, prior |-> 0, budgetLeft |-> FALSE,
     expired |-> FALSE, user |-> "none", type |-> 0, quote |-> NoQuote,
     message |-> NoMessage, transfer |-> NoTransfer, error |-> "none"]

\* A call that has returned or thrown: its locals are gone; what is kept is
\* what the caller saw (result, respKey) and what the call did (key, chain,
\* nbuilds, nfails, prior, budgetLeft, user, the quote request it sent, the
\* instructions it organized, the transfer it was asked for and the RPC
\* answers it got, the error its loop caught last).
Finish(call, result, respKey) ==
    [IdleCall EXCEPT !.pc = "done", !.result = result, !.respKey = respKey,
                     !.key = call.key, !.chain = call.chain,
                     !.nbuilds = call.nbuilds, !.nfails = call.nfails,
                     !.prior = call.prior, !.budgetLeft = call.budgetLeft,
                     !.user = call.user, !.type = call.type,
                     !.quote = call.quote, !.message = call.message,
                     !.transfer = call.transfer, !.error = call.error]

VARIABLES
    registry,      \* TransactionService registry: key -> TransactionRegistryEntry
    calls,         \* the invocations and their locals
    chainBuilds,   \* chain -> number of buildSwapResponse invocations
    chainMax,      \* chain -> largest MAX_BUILD_ATTEMPTS of the configs it has read
    swapSubscriptions,  \* SwapService.swapSubscriptions: user -> SwapSubscription
    streams        \* number of streams created so far

vars == <<registry, calls, chainBuilds, chainMax,
          swapSubscriptions, streams>>

(* ------------------------ TransactionService --------------------------- *)
\* getRegisteredTransaction(key): a plain lookup of the registry map
GetRegisteredTransaction(reg, key) ==
    IF key \in DOMAIN reg THEN reg[key] ELSE NoEntry

\* deleteFromRegistry(key)
DeleteFromRegistry(reg, key) == [k \in DOMAIN reg \ {key} |-> reg[k]]

\* registerTransaction / buildAndRegisterTransactionMessage: the compiled
\* message is stored under its base64 encoding; every build compiles a
\* message of its own (fresh blockhash), so the key is a fresh one
RegisterTransaction(reg, key, data) ==
    [k \in DOMAIN reg \cup {key} |-> IF k = key THEN data ELSE reg[k]]

\* passive expiry: the time-to-live of the entry of key has elapsed, or the
\* chain has passed its lastValidBlockHeight; from now on a lookup of the
\* key misses.  That the message registered by the call named key has
\* expired is remembered in the record of that call.
Expire(key) ==
    /\ key \in DOMAIN registry
    /\ registry' = DeleteFromRegistry(registry, key)
    /\ calls' = [calls EXCEPT ![key].expired = TRUE]
    /\ UNCHANGED <<chainBuilds, chainMax, swapSubscriptions, streams>>

(* ------------------------- buildSwapResponse --------------------------- *)
\* lines 50-56: the slippage checks that make a build throw
SlippageRejected(request, cfg) ==
    \/ Truthy(request.slippageBps) /\ request.slippageBps > cfg.USER_SLIPPAGE_BPS_MAX
    \/ Truthy(request.slippageBps) /\ request.slippageBps < cfg.MIN_SLIPPAGE_BPS

\* lines 82-91: slippageSettings.autoSlippage
AutoSlippageOf(request, cfg) ==
    IF Truthy(request.slippageBps) THEN FALSE ELSE cfg.AUTO_SLIPPAGE

\* txRegistryData without the config snapshot of line 164
TxRegistryData_NoSnapshot(type, request, cfg, buildAttempt, chain) ==
    [transactionType |-> type,
     autoSlippage |-> AutoSlippageOf(request, cfg),
     buildAttempts |-> buildAttempt,
     activeSwapRequest |-> request,
     cfg |-> NoCfg,
     chain |-> chain]

\* lines 157-165: txRegistryData
TxRegistryData(type, request, cfg, buildAttempt, chain) ==
    [transactionType |-> type,
     autoSlippage |-> AutoSlippageOf(request, cfg),
     buildAttempts |-> buildAttempt,
     activeSwapRequest |-> request,
     cfg |-> cfg,
     chain |-> chain]

(* -------------------- buildSwapResponseWithRebuild --------------------- *)
\* the initialiser of the loop without its + 1
FirstBuildAttempt_NoIncrement(priorBuildAttempts) == priorBuildAttempts

\* the initialiser of the loop starting at 1 whatever was built before
FirstBuildAttempt_IgnoresPrior(priorBuildAttempts) == 1

\* line 400: the initialiser of the loop
FirstBuildAttempt(priorBuildAttempts) == priorBuildAttempts + 1

\* the condition of the loop let one attempt too many through
LoopCondition_OffByOne(buildAttempt, cfg) ==
    buildAttempt <= cfg.MAX_BUILD_ATTEMPTS + 1

\* line 400: the condition of the loop
LoopCondition(buildAttempt, cfg) == buildAttempt <= cfg.MAX_BUILD_ATTEMPTS

\* the increment of the loop left out
NextBuildAttempt_NoIncrement(buildAttempt) == buildAttempt

\* line 400: the increment of the loop
NextBuildAttempt(buildAttempt) == buildAttempt + 1

\* the catch block of the loop without its slippageBps test
GivesUp_BudgetOnly(buildAttempt, cfg, request) ==
    buildAttempt >= cfg.MAX_BUILD_ATTEMPTS

\* line 406: the catch block rethrows
GivesUp(buildAttempt, cfg, request) ==
    \/ buildAttempt >= cfg.MAX_BUILD_ATTEMPTS
    \/ request.slippageBps # Undefined

\* The call c enters buildSwapResponseWithRebuild(request, cfg, prior): it
\* invokes buildSwapResponse when the loop condition holds and otherwise
\* falls out of the loop to the throw of line 411.
EnterRebuildLoop(c, base, request, cfg, prior, chain) ==
    LET first == FirstBuildAttempt(prior) IN
    IF LoopCondition(first, cfg)
    THEN /\ calls' = [calls EXCEPT ![c] =
                [base EXCEPT !.pc = "building", !.request = request,
                             !.buildCfg = cfg, !.buildAttempt = first,
                             !.chain = chain, !.nbuilds = 1,
                             !.entry = NoEntry, !.cfg = NoCfg]]
         /\ chainBuilds' = [chainBuilds EXCEPT ![chain] = @ + 1]
    ELSE /\ calls' = [calls EXCEPT ![c] =
                Finish([base EXCEPT !.chain = chain], "buildfail", "none")]
         /\ UNCHANGED chainBuilds

(* ------------------------------ fetchSwap ------------------------------ *)
\* lines 365-384: config() is read once (it resolves to liveCfg), then the
\* rebuild loop starts at 0
FetchSwap(c, request, liveCfg) ==
    /\ c \in FetchCalls
    /\ calls[c].pc = "idle"
    /\ chainMax' = [chainMax EXCEPT ![c] = liveCfg.MAX_BUILD_ATTEMPTS]
    /\ EnterRebuildLoop(c, IdleCall, request, liveCfg, 0, c)
    /\ UNCHANGED <<registry, swapSubscriptions, streams>>

\* lines 157-181 of buildSwapResponse reached from the loop: the message is
\* compiled and registered and the response returned (line 403)
BuildSucceeds(c) ==
    /\ c \in FetchCalls \cup SasCalls
    /\ calls[c].pc = "building"
    /\ ~SlippageRejected(calls[c].request, calls[c].buildCfg)
    /\ \E type \in SwapTypes :
         registry' = RegisterTransaction(registry, c,
             TxRegistryData(type, calls[c].request, calls[c].buildCfg,
                            calls[c].buildAttempt, calls[c].chain))
    /\ calls' = [calls EXCEPT ![c] =
            Finish(calls[c], IF c \in SasCalls THEN "rebuild" ELSE "ok", c)]
    /\ UNCHANGED <<chainBuilds, chainMax, swapSubscriptions, streams>>

\* the catch block of the loop reading the live config again before the
\* next attempt
LoopCatch_RereadsConfig(c, error) ==
    /\ IF GivesUp(calls[c].buildAttempt, calls[c].buildCfg, calls[c].request)
       THEN /\ calls' = [calls EXCEPT ![c] =
                    Finish([calls[c] EXCEPT !.nfails = @ + 1, !.error = error],
                           "buildfail", "none")]
            /\ UNCHANGED chainBuilds
       ELSE LET next == NextBuildAttempt(calls[c].buildAttempt) IN
            IF LoopCondition(next, calls[c].buildCfg)
            THEN /\ \E liveCfg \in Configs :
                      calls' = [calls EXCEPT ![c].pc = "building",
                                             ![c].buildCfg = liveCfg,
                                             ![c].buildAttempt = next,
                                             ![c].nbuilds = @ + 1,
                                             ![c].nfails = @ + 1,
                                             ![c].error = error]
                 /\ chainBuilds' = [chainBuilds EXCEPT ![calls[c].chain] = @ + 1]
            ELSE /\ calls' = [calls EXCEPT ![c] =
                    Finish([calls[c] EXCEPT !.nfails = @ + 1, !.error = error],
                           "buildfail", "none")]
                 /\ UNCHANGED chainBuilds

\* lines 404-409: the catch block of the loop, entered with the error that
\* buildSwapResponse threw, and the step to the next attempt
LoopCatch(c, error) ==
    /\ IF GivesUp(calls[c].buildAttempt, calls[c].buildCfg, calls[c].request)
       THEN /\ calls' = [calls EXCEPT ![c] =
                    Finish([calls[c] EXCEPT !.nfails = @ + 1, !.error = error],
                           "buildfail", "none")]
            /\ UNCHANGED chainBuilds
       ELSE LET next == NextBuildAttempt(calls[c].buildAttempt) IN
            IF LoopCondition(next, calls[c].buildCfg)
            THEN /\ calls' = [calls EXCEPT ![c].pc = "building",
                                           ![c].buildAttempt = next,
                                           ![c].nbuilds = @ + 1,
                                           ![c].nfails = @ + 1,
                                           ![c].error = error]
                 /\ chainBuilds' = [chainBuilds EXCEPT ![calls[c].chain] = @ + 1]
            ELSE /\ calls' = [calls EXCEPT ![c] =
                    Finish([calls[c] EXCEPT !.nfails = @ + 1, !.error = error],
                           "buildfail", "none")]
                 /\ UNCHANGED chainBuilds

\* lines 404-409: buildSwapResponse threw; rethrow or go round the loop
BuildFails(c) ==
    /\ c \in FetchCalls \cup SasCalls \cup PresignedCalls \cup UpdateCalls
    /\ calls[c].pc = "building"
    /\ LoopCatch(c, "thrown")
    /\ UNCHANGED <<registry, chainMax, swapSubscriptions, streams>>

(* ------------------------- fetchPresignedSwap -------------------------- *)
\* line 434: fetchPresignedSwap calls fetchSwap (lines 365-384)
FetchPresignedSwap(c, request, liveCfg) ==
    /\ c \in PresignedCalls
    /\ calls[c].pc = "idle"
    /\ chainMax' = [chainMax EXCEPT ![c] = liveCfg.MAX_BUILD_ATTEMPTS]
    /\ EnterRebuildLoop(c, IdleCall, request, liveCfg, 0, c)
    /\ UNCHANGED <<registry, swapSubscriptions, streams>>

\* line 434: the build of the inner fetchSwap succeeded: the message is
\* registered and fetchSwap returns to fetchPresignedSwap, which resumes in
\* a later turn; no client has the message yet
PresignedBuildSucceeds(c) ==
    /\ c \in PresignedCalls
    /\ calls[c].pc = "building"
    /\ ~SlippageRejected(calls[c].request, calls[c].buildCfg)
    /\ \E type \in SwapTypes :
         registry' = RegisterTransaction(registry, c,
             TxRegistryData(type, calls[c].request, calls[c].buildCfg,
                            calls[c].buildAttempt, calls[c].chain))
    /\ calls' = [calls EXCEPT ![c].pc = "fetched", ![c].key = c]
    /\ UNCHANGED <<chainBuilds, chainMax, swapSubscriptions, streams>>

\* the continuation of line 435 without the delete of line 442
PresignedConsume_NoDelete(c) ==
    /\ c \in PresignedCalls
    /\ calls[c].pc = "fetched"
    /\ LET entry == GetRegisteredTransaction(registry, calls[c].key) IN
       IF entry = NoEntry
       THEN calls' = [calls EXCEPT ![c] = Finish(calls[c], "miss", "none")]
       ELSE calls' = [calls EXCEPT ![c].pc = "signing"]
    /\ UNCHANGED <<registry, chainBuilds, chainMax, swapSubscriptions, streams>>

\* lines 435-444: the entry of the message just built is read and deleted
\* in one turn, then the call suspends on signTransaction
PresignedConsume(c) ==
    /\ c \in PresignedCalls
    /\ calls[c].pc = "fetched"
    /\ LET entry == GetRegisteredTransaction(registry, calls[c].key) IN
       IF entry = NoEntry
       THEN /\ calls' = [calls EXCEPT ![c] = Finish(calls[c], "miss", "none")]
            /\ UNCHANGED registry
       ELSE /\ registry' = DeleteFromRegistry(registry, calls[c].key)
            /\ calls' = [calls EXCEPT ![c].pc = "signing"]
    /\ UNCHANGED <<chainBuilds, chainMax, swapSubscriptions, streams>>

\* lines 444-451: the fee payer signature is attached and the response
\* returned; the client now holds the message
PresignedReturn(c) ==
    /\ c \in PresignedCalls
    /\ calls[c].pc = "signing"
    /\ calls' = [calls EXCEPT ![c] = Finish(calls[c], "ok", calls[c].key)]
    /\ UNCHANGED <<registry, chainBuilds, chainMax, swapSubscriptions, streams>>

\* line 444: signTransaction threw
PresignedSignFails(c) ==
    /\ c \in PresignedCalls
    /\ calls[c].pc = "signing"
    /\ calls' = [calls EXCEPT ![c] = Finish(calls[c], "signfail", "none")]
    /\ UNCHANGED <<registry, chainBuilds, chainMax, swapSubscriptions, streams>>

(* ---------------------------- getTransfer ------------------------------ *)
\* lines 146-154: what getTransfer registers
TransferRegistryData ==
    [transactionType |-> TRANSFER,
     autoSlippage |-> FALSE,
     buildAttempts |-> 1,
     activeSwapRequest |-> NoRequest,
     cfg |-> NoCfg,
     chain |-> "none"]

\* request.tokenId (SOLANA, USDC or anything else) and the answers of the
\* RPC node of lines 86-87, the rent exemption fee not computed yet
TransferOf(tokenId, toTokenAccountSolBalance, fromTokenAccountUsdcBalance) ==
    [tokenId |-> tokenId,
     toTokenAccountSolBalance |-> toTokenAccountSolBalance,
     fromTokenAccountUsdcBalance |-> fromTokenAccountUsdcBalance,
     rentExemptionFeeAmountUsdcBaseUnits |-> Undefined]

\* the instructions of a transfer with the account fee ahead of the transfer
AllInstructions_FeeBeforeTransfer(withComputeBudget, withCreateATA) ==
    (IF withComputeBudget
     THEN <<"computeUnitLimit", "computeUnitPrice">> ELSE << >>)
    \o (IF withCreateATA THEN <<"createATA", "createATAFee">> ELSE << >>)
    \o <<"transfer">>

\* lines 130-136: allInstructions, the instructions that are not null in the
\* order compute unit limit, compute unit price, create account, transfer,
\* account fee
AllInstructions(withComputeBudget, withCreateATA) ==
    (IF withComputeBudget
     THEN <<"computeUnitLimit", "computeUnitPrice">> ELSE << >>)
    \o (IF withCreateATA THEN <<"createATA">> ELSE << >>)
    \o <<"transfer">>
    \o (IF withCreateATA THEN <<"createATAFee">> ELSE << >>)

\* lines 127-158: the message is compiled from the instructions and
\* registered, and its encoding returned
CompileAndRegister(c, transfer, allInstructions) ==
    /\ registry' = RegisterTransaction(registry, c, TransferRegistryData)
    /\ calls' = [calls EXCEPT ![c] =
            Finish([calls[c] EXCEPT
                       !.transfer = transfer,
                       !.message = [allInstructions |-> allInstructions]],
                   "ok", c)]

\* lines 62-159 for a SOL transfer (lines 70-76): one transfer instruction,
\* built and registered
GetTransfer(c) ==
    /\ c \in TransferCalls
    /\ calls[c].pc = "idle"
    /\ CompileAndRegister(c, TransferOf("SOLANA", Undefined, Undefined),
                          AllInstructions(FALSE, FALSE))
    /\ UNCHANGED <<chainBuilds, chainMax, swapSubscriptions, streams>>

\* lines 124-126: a token that is neither SOL nor USDC
GetTransferInvalid(c) ==
    /\ c \in TransferCalls
    /\ calls[c].pc = "idle"
    /\ calls' = [calls EXCEPT ![c] =
            Finish([calls[c] EXCEPT
                       !.transfer = TransferOf("OTHER", Undefined, Undefined)],
                   "invalid", "none")]
    /\ UNCHANGED <<registry, chainBuilds, chainMax, swapSubscriptions,
                   streams>>

\* balances the RPC node can answer with, and base-unit amounts of the rent
\* exemption fee
Balances == {0, 1, 2, 3}
RentExemptionFees == {2, 3}

\* lines 78-87 for a USDC transfer: the SOL balance of the destination token
\* account and the USDC balance of the sender are read
GetTransferUsdc(c, toTokenAccountSolBalance, fromTokenAccountUsdcBalance) ==
    /\ c \in TransferCalls
    /\ calls[c].pc = "idle"
    /\ calls' = [calls EXCEPT ![c].pc = "balances",
                              ![c].transfer =
            TransferOf("USDC", toTokenAccountSolBalance,
                       fromTokenAccountUsdcBalance)]
    /\ UNCHANGED <<registry, chainBuilds, chainMax, swapSubscriptions,
                   streams>>

\* lines 89-100: the destination has no token account, the rent exemption
\* fee is computed; lines 89 and 114-123, 127-158 when it has one: the
\* transfer is built without account creation
GetTransferRent(c, fee) ==
    /\ c \in TransferCalls
    /\ calls[c].pc = "balances"
    /\ IF calls[c].transfer.toTokenAccountSolBalance = 0
       THEN /\ calls' = [calls EXCEPT ![c].pc = "rent",
                  ![c].transfer.rentExemptionFeeAmountUsdcBaseUnits = fee]
            /\ UNCHANGED registry
       ELSE CompileAndRegister(c, calls[c].transfer,
                               AllInstructions(TRUE, FALSE))
    /\ UNCHANGED <<chainBuilds, chainMax, swapSubscriptions, streams>>

\* the balance test without effect
InsufficientBalance_Never(balance, fee) == FALSE

\* line 102
InsufficientBalance(balance, fee) == balance < fee

\* lines 102-158: the balance of the sender is verified against the fee;
\* the transfer is built with the account creation and its fee
GetTransferVerify(c) ==
    /\ c \in TransferCalls
    /\ calls[c].pc = "rent"
    /\ IF InsufficientBalance(calls[c].transfer.fromTokenAccountUsdcBalance,
              calls[c].transfer.rentExemptionFeeAmountUsdcBaseUnits)
       THEN /\ calls' = [calls EXCEPT ![c] =
                  Finish(calls[c], "insufficient", "none")]
            /\ UNCHANGED registry
       ELSE CompileAndRegister(c, calls[c].transfer,
                               AllInstructions(TRUE, TRUE))
    /\ UNCHANGED <<chainBuilds, chainMax, swapSubscriptions, streams>>

(* ----------------------- signAndSendTransaction ------------------------ *)
\* the keys a client can present: those of the responses returned so far, and
\* a string that is the encoding of no registered message
IssuedKeys == {k \in Keys : calls[k].respKey = k}
UnknownKey == "unknown"

\* the lookup without the !entry test of lines 506-508
SasLookup_NoMissCheck(c, key) ==
    /\ c \in SasCalls
    /\ calls[c].pc = "idle"
    /\ c = "s2" => calls["s1"].pc # "idle"
    /\ key \in IssuedKeys \cup {UnknownKey}
    /\ calls' = [calls EXCEPT ![c] =
            [IdleCall EXCEPT !.pc = "config", !.key = key,
                             !.entry = GetRegisteredTransaction(registry, key)]]
    /\ UNCHANGED <<registry, chainBuilds, chainMax,
                   swapSubscriptions, streams>>

\* lines 504-510: the registry lookup; a miss throws, a hit suspends on
\* config()
SasLookup(c, key) ==
    /\ c \in SasCalls
    /\ calls[c].pc = "idle"
    /\ c = "s2" => calls["s1"].pc # "idle"
    /\ key \in IssuedKeys \cup {UnknownKey}
    /\ LET entry == GetRegisteredTransaction(registry, key) IN
       IF entry = NoEntry
       THEN calls' = [calls EXCEPT ![c] =
                Finish([IdleCall EXCEPT !.key = key], "miss", "none")]
       ELSE calls' = [calls EXCEPT ![c] =
                [IdleCall EXCEPT !.pc = "config", !.key = key, !.entry = entry,
                                 !.chain = entry.chain,
                                 !.prior = entry.buildAttempts]]
    /\ UNCHANGED <<registry, chainBuilds, chainMax,
                   swapSubscriptions, streams>>

LargerOf(a, b) == IF a >= b THEN a ELSE b

\* lines 510-513: config() resolved; the stored message is signed and
\* handed to the network
SasSubmit(c, liveCfg) ==
    /\ c \in SasCalls
    /\ calls[c].pc = "config"
    /\ calls' = [calls EXCEPT
            ![c].pc = "submitted", ![c].cfg = liveCfg,
            ![c].budgetLeft =
                calls[c].entry.buildAttempts + 1 < liveCfg.MAX_BUILD_ATTEMPTS]
    /\ chainMax' = IF calls[c].chain \in Chains
                   THEN [chainMax EXCEPT ![calls[c].chain] =
                            LargerOf(@, liveCfg.MAX_BUILD_ATTEMPTS)]
                   ELSE chainMax
    /\ UNCHANGED <<registry, chainBuilds, swapSubscriptions, streams>>

\* line 514: the network accepted the transaction
SasSuccess(c) ==
    /\ c \in SasCalls
    /\ calls[c].pc = "submitted"
    /\ calls' = [calls EXCEPT ![c] = Finish(calls[c], "success", "none")]
    /\ UNCHANGED <<registry, chainBuilds, chainMax,
                   swapSubscriptions, streams>>

\* lines 513-514: the promise of TransactionService.signAndSendTransaction
\* is returned without await, so when it rejects after the try block was
\* left the rejection reaches the caller as it is ("rejected") and the catch
\* block does not run
SasRejects(c) ==
    /\ c \in SasCalls
    /\ calls[c].pc = "submitted"
    /\ calls' = [calls EXCEPT ![c] = Finish(calls[c], "rejected", "none")]
    /\ UNCHANGED <<registry, chainBuilds, chainMax,
                   swapSubscriptions, streams>>

\* the catch block with the budget check alone: neither the TRANSFER guard
\* nor the autoSlippage guard
RebuildDecision_BudgetOnly(entry, cfg) ==
    IF entry.buildAttempts + 1 >= cfg.MAX_BUILD_ATTEMPTS THEN "fail"
    ELSE IF entry.activeSwapRequest = NoRequest THEN "notset"
    ELSE IF entry.cfg = NoCfg THEN "notset"
    ELSE "rebuild"

\* the catch block with > in place of >= in the budget check
RebuildDecision_OffByOne(entry, cfg) ==
    IF entry.transactionType = TRANSFER THEN "fail"
    ELSE IF entry.buildAttempts + 1 > cfg.MAX_BUILD_ATTEMPTS \/ ~entry.autoSlippage
         THEN "fail"
    ELSE IF entry.activeSwapRequest = NoRequest THEN "notset"
    ELSE IF entry.cfg = NoCfg THEN "notset"
    ELSE "rebuild"

\* lines 517-537: what the catch block does with the entry: "fail" rethrows
\* the submission error, "notset" throws one of the "... is not set" errors,
\* "rebuild" goes on to line 538
RebuildDecision(entry, cfg) ==
    IF entry.transactionType = TRANSFER THEN "fail"
    ELSE IF entry.buildAttempts + 1 >= cfg.MAX_BUILD_ATTEMPTS \/ ~entry.autoSlippage
         THEN "fail"
    ELSE IF entry.activeSwapRequest = NoRequest THEN "notset"
    ELSE IF entry.cfg = NoCfg THEN "notset"
    ELSE "rebuild"

\* the catch block without the deleteMessageFromRegistry of line 538
SasCatch_NoDelete(c) ==
    /\ c \in SasCalls
    /\ calls[c].pc = "submitted"
    /\ LET entry == calls[c].entry
           decision == RebuildDecision(entry, calls[c].cfg) IN
       IF decision = "rebuild"
       THEN /\ UNCHANGED registry
            /\ EnterRebuildLoop(c, calls[c], entry.activeSwapRequest, entry.cfg,
                                entry.buildAttempts, entry.chain)
       ELSE /\ calls' = [calls EXCEPT ![c] = Finish(calls[c], decision, "none")]
            /\ UNCHANGED <<registry, chainBuilds>>
    /\ UNCHANGED <<chainMax, swapSubscriptions, streams>>

\* lines 515-543: the submission threw inside the try block
SasCatch(c) ==
    /\ c \in SasCalls
    /\ calls[c].pc = "submitted"
    /\ LET entry == calls[c].entry
           decision == RebuildDecision(entry, calls[c].cfg) IN
       IF decision = "rebuild"
       THEN /\ registry' = DeleteFromRegistry(registry, calls[c].key)
            /\ EnterRebuildLoop(c, calls[c], entry.activeSwapRequest, entry.cfg,
                                entry.buildAttempts, entry.chain)
       ELSE /\ calls' = [calls EXCEPT ![c] = Finish(calls[c], decision, "none")]
            /\ UNCHANGED <<registry, chainBuilds>>
    /\ UNCHANGED <<chainMax, swapSubscriptions, streams>>

(* ----------------------------- swap stream ----------------------------- *)
\* lines 270-294: a stream is created for a user that has none
StartSwapStream(u, request) ==
    /\ IF u \notin DOMAIN swapSubscriptions
       THEN /\ streams < MaxStreams
            /\ streams' = streams + 1
            /\ swapSubscriptions' =
                [x \in DOMAIN swapSubscriptions \cup {u} |->
                    IF x = u
                    THEN [request |-> request, subscribed |-> TRUE,
                          id |-> streams + 1, inner |-> "none"]
                    ELSE swapSubscriptions[x]]
       ELSE UNCHANGED <<swapSubscriptions, streams>>
    /\ UNCHANGED <<registry, calls, chainBuilds, chainMax>>

\* lines 301-308
StopSwapStream(u) ==
    /\ IF u \in DOMAIN swapSubscriptions
       THEN swapSubscriptions' =
                [x \in DOMAIN swapSubscriptions \ {u} |-> swapSubscriptions[x]]
       ELSE UNCHANGED swapSubscriptions
    /\ UNCHANGED <<registry, calls, chainBuilds, chainMax, streams>>

\* lines 275-280: the interval fires; switchMap drops its subscription to
\* the promise of the tick before and subscribes to the promise of this one
\* (inner); the callback reads the current request and suspends on
\* config(). The ticks of an interval fire in order: a later tick fires
\* after the earlier one has.
Tick(c, u) ==
    /\ c \in AllTickCalls
    /\ calls[c].pc = "idle"
    /\ c \in LaterTickCalls => \A e \in TickCalls : calls[e].pc # "idle"
    /\ u \in DOMAIN swapSubscriptions
    /\ swapSubscriptions[u].subscribed
    /\ calls' = [calls EXCEPT ![c] =
            [IdleCall EXCEPT !.pc = "config",
                             !.request = swapSubscriptions[u].request,
                             !.stream = swapSubscriptions[u].id]]
    /\ swapSubscriptions' = [swapSubscriptions EXCEPT ![u].inner = c]
    /\ UNCHANGED <<registry, chainBuilds, chainMax, streams>>

\* the buildAttempt argument of line 281
TickBuildAttempt == 0

\* lines 280-281: config() resolved; buildSwapResponse is invoked
TickBuild(c, liveCfg) ==
    /\ c \in AllTickCalls
    /\ calls[c].pc = "config"
    /\ chainMax' = [chainMax EXCEPT ![c] = liveCfg.MAX_BUILD_ATTEMPTS]
    /\ chainBuilds' = [chainBuilds EXCEPT ![c] = @ + 1]
    /\ calls' = [calls EXCEPT ![c].pc = "building",
                              ![c].buildCfg = liveCfg,
                              ![c].buildAttempt = TickBuildAttempt,
                              ![c].chain = c, ![c].nbuilds = 1]
    /\ UNCHANGED <<registry, swapSubscriptions, streams>>

\* the interval subscription of the stream with this id is still there:
\* the stream is in the map (not stopped, line 304) and has not errored
StreamSubscribed(id) ==
    \E u \in DOMAIN swapSubscriptions :
        swapSubscriptions[u].id = id /\ swapSubscriptions[u].subscribed

\* switchMap is subscribed to the promise of this tick: the stream of the
\* tick is subscribed and no later tick of it has fired
InnerOf(c) ==
    \E u \in DOMAIN swapSubscriptions :
        /\ swapSubscriptions[u].id = calls[c].stream
        /\ swapSubscriptions[u].subscribed
        /\ swapSubscriptions[u].inner = c

\* a tick whose response goes to the subject whether or not the stream was
\* stopped in the meantime
TickBuildSucceeds_AlwaysEmits(c) ==
    /\ c \in AllTickCalls
    /\ calls[c].pc = "building"
    /\ ~SlippageRejected(calls[c].request, calls[c].buildCfg)
    /\ \E type \in SwapTypes :
         registry' = RegisterTransaction(registry, c,
             TxRegistryData(type, calls[c].request, calls[c].buildCfg,
                            calls[c].buildAttempt, calls[c].chain))
    /\ calls' = [calls EXCEPT ![c] = Finish(calls[c], "ok", c)]
    /\ UNCHANGED <<chainBuilds, chainMax, swapSubscriptions, streams>>

\* a tick whose response goes to the subject although a later tick has
\* fired (mergeMap in the place of switchMap)
TickBuildSucceeds_MergeMap(c) ==
    /\ c \in AllTickCalls
    /\ calls[c].pc = "building"
    /\ ~SlippageRejected(calls[c].request, calls[c].buildCfg)
    /\ \E type \in SwapTypes :
         registry' = RegisterTransaction(registry, c,
             TxRegistryData(type, calls[c].request, calls[c].buildCfg,
                            calls[c].buildAttempt, calls[c].chain))
    /\ calls' = [calls EXCEPT ![c] =
            IF StreamSubscribed(calls[c].stream)
            THEN Finish(calls[c], "ok", c)
            ELSE Finish(calls[c], "dropped", "none")]
    /\ UNCHANGED <<chainBuilds, chainMax, swapSubscriptions, streams>>

\* lines 157-181 reached from a tick: the message is registered; the
\* response goes to the subject (lines 284-288) when switchMap is still
\* subscribed to the promise of the tick, and is dropped ("dropped") when
\* the stream was stopped, or a later tick fired, while the tick was
\* building
TickBuildSucceeds(c) ==
    /\ c \in AllTickCalls
    /\ calls[c].pc = "building"
    /\ ~SlippageRejected(calls[c].request, calls[c].buildCfg)
    /\ \E type \in SwapTypes :
         registry' = RegisterTransaction(registry, c,
             TxRegistryData(type, calls[c].request, calls[c].buildCfg,
                            calls[c].buildAttempt, calls[c].chain))
    /\ calls' = [calls EXCEPT ![c] =
            IF InnerOf(c)
            THEN Finish(calls[c], "ok", c)
            ELSE Finish(calls[c], "dropped", "none")]
    /\ UNCHANGED <<chainBuilds, chainMax, swapSubscriptions, streams>>

\* buildSwapResponse threw inside switchMap: the error ends the interval
\* subscription of the stream the tick belongs to, which has no error
\* handler; the rejection of a promise switchMap has dropped is not
\* delivered
TickBuildFails(c) ==
    /\ c \in AllTickCalls
    /\ calls[c].pc = "building"
    /\ calls' = [calls EXCEPT ![c] =
            Finish([calls[c] EXCEPT !.nfails = 1], "buildfail", "none")]
    /\ swapSubscriptions' =
          [u \in DOMAIN swapSubscriptions |->
              IF swapSubscriptions[u].id = calls[c].stream
                 /\ swapSubscriptions[u].inner = c
              THEN [swapSubscriptions[u] EXCEPT !.subscribed = FALSE]
              ELSE swapSubscriptions[u]]
    /\ UNCHANGED <<registry, chainBuilds, chainMax, streams>>

(* ------------------- the stream methods of Service --------------------- *)
\* startSwapStream without the has(userId) test of part_003:271
ServiceStartSwapStream_AlwaysCreates(c, u, request) ==
    /\ c \in StartCalls
    /\ calls[c].pc = "idle"
    /\ streams' = streams + 1
    /\ swapSubscriptions' =
        [x \in DOMAIN swapSubscriptions \cup {u} |->
            IF x = u
            THEN [request |-> request, subscribed |-> TRUE,
                  id |-> streams + 1, inner |-> "none"]
            ELSE swapSubscriptions[x]]
    /\ calls' = [calls EXCEPT ![c] =
            [IdleCall EXCEPT !.pc = "done", !.result = "ok", !.user = u,
                             !.stream = streams + 1]]
    /\ UNCHANGED <<registry, chainBuilds, chainMax>>

\* TransferService.ts lines 461-478 with part_003 lines 270-294: the call
\* creates the stream of a user that has none and returns the subject that
\* is in the map; the subject is named by the id of its stream
ServiceStartSwapStream(c, u, request) ==
    /\ c \in StartCalls
    /\ calls[c].pc = "idle"
    /\ IF u \notin DOMAIN swapSubscriptions
       THEN /\ streams' = streams + 1
            /\ swapSubscriptions' =
                [x \in DOMAIN swapSubscriptions \cup {u} |->
                    IF x = u
                    THEN [request |-> request, subscribed |-> TRUE,
                          id |-> streams + 1, inner |-> "none"]
                    ELSE swapSubscriptions[x]]
       ELSE UNCHANGED <<swapSubscriptions, streams>>
    /\ calls' = [calls EXCEPT ![c] =
            [IdleCall EXCEPT !.pc = "done", !.result = "ok", !.user = u,
                             !.stream = swapSubscriptions'[u].id]]
    /\ UNCHANGED <<registry, chainBuilds, chainMax>>

\* TransferService.ts lines 485-488 with part_003 lines 301-308; the call
\* remembers the stream it stopped (0: none)
ServiceStopSwapStream(c, u) ==
    /\ c \in StopCalls
    /\ calls[c].pc = "idle"
    /\ IF u \in DOMAIN swapSubscriptions
       THEN swapSubscriptions' =
                [x \in DOMAIN swapSubscriptions \ {u} |-> swapSubscriptions[x]]
       ELSE UNCHANGED swapSubscriptions
    /\ calls' = [calls EXCEPT ![c] =
            [IdleCall EXCEPT !.pc = "done", !.result = "ok", !.user = u,
                             !.stream = IF u \in DOMAIN swapSubscriptions
                                        THEN swapSubscriptions[u].id ELSE 0]]
    /\ UNCHANGED <<registry, chainBuilds, chainMax, streams>>

\* updateSwapRequest without the hasActiveStream test of lines 571-573
UpdateSwapRequest_NoCheck(c, u, request, liveCfg) ==
    /\ c \in UpdateCalls
    /\ calls[c].pc = "idle"
    /\ chainMax' = [chainMax EXCEPT ![c] = liveCfg.MAX_BUILD_ATTEMPTS]
    /\ EnterRebuildLoop(c, [IdleCall EXCEPT !.user = u], request, liveCfg, 0, c)
    /\ UNCHANGED <<registry, swapSubscriptions, streams>>

\* lines 568-576: without a stream the call throws "No active swap stream
\* found to update"; with one it calls fetchSwap (lines 365-384)
UpdateSwapRequest(c, u, request, liveCfg) ==
    /\ c \in UpdateCalls
    /\ calls[c].pc = "idle"
    /\ IF u \notin DOMAIN swapSubscriptions
       THEN /\ calls' = [calls EXCEPT ![c] =
                    Finish([IdleCall EXCEPT !.user = u], "nostream", "none")]
            /\ UNCHANGED <<chainBuilds, chainMax>>
       ELSE /\ chainMax' = [chainMax EXCEPT ![c] = liveCfg.MAX_BUILD_ATTEMPTS]
            /\ EnterRebuildLoop(c, [IdleCall EXCEPT !.user = u],
                                request, liveCfg, 0, c)
    /\ UNCHANGED <<registry, swapSubscriptions, streams>>

\* line 576: the build of the inner fetchSwap succeeded: the message is
\* registered and updateSwapRequest resumes in a later turn
UpdateBuildSucceeds(c) ==
    /\ c \in UpdateCalls
    /\ calls[c].pc = "building"
    /\ ~SlippageRejected(calls[c].request, calls[c].buildCfg)
    /\ \E type \in SwapTypes :
         registry' = RegisterTransaction(registry, c,
             TxRegistryData(type, calls[c].request, calls[c].buildCfg,
                            calls[c].buildAttempt, calls[c].chain))
    /\ calls' = [calls EXCEPT ![c].pc = "fetched", ![c].key = c]
    /\ UNCHANGED <<chainBuilds, chainMax, swapSubscriptions, streams>>

\* lines 578-593 with part_003 lines 254-260: the request of the stream is
\* replaced and the response returned; when the stream was stopped in the
\* meantime updateActiveRequest throws "No active swap stream found"
UpdateApply(c) ==
    /\ c \in UpdateCalls
    /\ calls[c].pc = "fetched"
    /\ LET u == calls[c].user IN
       IF u \notin DOMAIN swapSubscriptions
       THEN /\ calls' = [calls EXCEPT ![c] =
                    Finish(calls[c], "nostream_late", "none")]
            /\ UNCHANGED swapSubscriptions
       ELSE /\ swapSubscriptions' =
                [swapSubscriptions EXCEPT ![u].request = calls[c].request]
            /\ calls' = [calls EXCEPT ![c] = Finish(calls[c], "ok", c)]
    /\ UNCHANGED <<registry, chainBuilds, chainMax, streams>>

(* -------------------- buildSwapResponse, step by step ------------------- *)
\* sellQuantity of a request and outAmount of a quote: below, at and above
\* MIN_TRADE_SIZE, and the quantity of the worked example
Quantities == {14, 15, 100, 1000000}

\* fee tiers in basis points: none, 1% and the whole quantity
FeeBpsChoices == {0, 100, 10000}

\* the Config a build reads: the slippage policy, the budget and the fee
\* policy
BuildConfigs ==
    [MAX_BUILD_ATTEMPTS : 1..MaxMBA, AUTO_SLIPPAGE : BOOLEAN,
     MIN_SLIPPAGE_BPS : {2}, USER_SLIPPAGE_BPS_MAX : {3},
     MAX_DEFAULT_SLIPPAGE_BPS : {3}, MAX_AUTO_SLIPPAGE_BPS : {5},
     BUY_FEE_BPS : FeeBpsChoices, SELL_FEE_BPS : FeeBpsChoices,
     MIN_TRADE_SIZE : {15}]

\* ActiveSwapRequest with the fields a build reads; sellTokenAccount says
\* whether deriveTokenAccounts produced one
BuildRequests ==
    [slippageBps : SlippageChoices, sellQuantity : Quantities,
     sellTokenAccount : BOOLEAN]

\* a null instruction
Null == [kind |-> "null"]

\* the instructions of a route, in the order Jupiter returns them
Routes == {<< >>, <<[kind |-> "route", n |-> 1]>>,
           <<[kind |-> "route", n |-> 1], [kind |-> "route", n |-> 2]>>}

\* what getSwapInstructions resolves to, or its rejection
QuoteResults == [thrown : BOOLEAN, swapInstructions : Routes,
                 outAmount : Quantities]

\* lines 46-56: the checks at the head of buildSwapResponse
ValidationFails(request, cfg) ==
    \/ ~request.sellTokenAccount
    \/ SlippageRejected(request, cfg)

\* FeeService.calculateFeeAmount rejects a quantity below the minimum trade
\* size
FeeRejects(quantity, cfg) == quantity < cfg.MIN_TRADE_SIZE

\* the fee tier of a transaction type
FeeBpsOf(type, cfg) ==
    IF type = BUY THEN cfg.BUY_FEE_BPS ELSE cfg.SELL_FEE_BPS

\* FeeService.calculateFeeAmount: the tier applied to the quantity, in whole
\* base units: floor(quantity * bps / 10000), computed on the quotient and
\* the remainder of quantity by 10000 so that no product leaves the range
\* of the integers of the checker
CalculateFeeAmount(quantity, type, cfg) ==
    (quantity \div 10000) * FeeBpsOf(type, cfg)
        + ((quantity % 10000) * FeeBpsOf(type, cfg)) \div 10000

\* the fee of a BUY computed from twice the quantity sold
BuyFeeAmount_OfTwiceTheQuantity(request, type, cfg) ==
    IF type = BUY
    THEN CalculateFeeAmount(2 * request.sellQuantity, type, cfg)
    ELSE 0

\* lines 62-65: the fee of a BUY is computed from sellQuantity
BuyFeeAmount(request, type, cfg) ==
    IF type = BUY
    THEN CalculateFeeAmount(request.sellQuantity, type, cfg)
    ELSE 0

\* the amount to swap without the fee of a BUY taken off
SwapAmount_NoFee(request, type, cfg) == request.sellQuantity

\* line 66
SwapAmount(request, type, cfg) ==
    request.sellQuantity - BuyFeeAmount(request, type, cfg)

\* lines 83-87: slippageSettings.slippageBps
SlippageBpsOf(request, cfg) ==
    IF Truthy(request.slippageBps)
    THEN request.slippageBps
    ELSE IF cfg.AUTO_SLIPPAGE THEN Undefined
         ELSE cfg.MAX_DEFAULT_SLIPPAGE_BPS

\* the quote request with the fee taken off twice
QuoteGetRequest_FeeTwice(request, type, cfg) ==
    [amount |-> SwapAmount(request, type, cfg)
                    - BuyFeeAmount(request, type, cfg),
     slippageBps |-> SlippageBpsOf(request, cfg),
     autoSlippage |-> AutoSlippageOf(request, cfg),
     maxAutoSlippageBps |-> cfg.MAX_AUTO_SLIPPAGE_BPS]

\* lines 96-108: the QuoteGetRequest sent to Jupiter
QuoteGetRequest(request, type, cfg) ==
    [amount |-> SwapAmount(request, type, cfg),
     slippageBps |-> SlippageBpsOf(request, cfg),
     autoSlippage |-> AutoSlippageOf(request, cfg),
     maxAutoSlippageBps |-> cfg.MAX_AUTO_SLIPPAGE_BPS]

\* lines 69-75: createTokenCloseInstruction gives an instruction for
\* SELL_ALL only
TokenCloseInstruction(type) ==
    IF type = SELL_ALL THEN [kind |-> "close"] ELSE Null

\* the fee of a sell computed from the quantity sold, not from the quote
FeeAmount_FromSellQuantity(request, type, cfg, quote) ==
    CalculateFeeAmount(request.sellQuantity, type, cfg)

\* lines 120-135: the amount of the fee transfer
FeeAmount(request, type, cfg, quote) ==
    IF type = BUY
    THEN BuyFeeAmount(request, type, cfg)
    ELSE CalculateFeeAmount(quote.outAmount, type, cfg)

\* lines 122-135: the account the fee is taken from
FeeAccount(type) ==
    IF type = BUY THEN "sellTokenAccount" ELSE "buyTokenAccount"

\* the instructions without the fee transfer
OrganizeInstructions_NoFee(swapInstructions, feeTransferInstruction, tokenCloseInstruction) ==
    IF tokenCloseInstruction.kind # "null"
    THEN Append(swapInstructions, tokenCloseInstruction)
    ELSE swapInstructions

\* the order of instructions with the close instruction ahead of the fee
\* transfer
OrganizeInstructions_CloseBeforeFee(swapInstructions, feeTransferInstruction, tokenCloseInstruction) ==
    LET withClose == IF tokenCloseInstruction.kind # "null"
                     THEN Append(swapInstructions, tokenCloseInstruction)
                     ELSE swapInstructions
    IN  IF feeTransferInstruction.kind # "null"
        THEN Append(withClose, feeTransferInstruction)
        ELSE withClose

\* lines 193-206
OrganizeInstructions(swapInstructions, feeTransferInstruction, tokenCloseInstruction) ==
    LET withFee == IF feeTransferInstruction.kind # "null"
                   THEN Append(swapInstructions, feeTransferInstruction)
                   ELSE swapInstructions
    IN  IF tokenCloseInstruction.kind # "null"
        THEN Append(withFee, tokenCloseInstruction)
        ELSE withFee

\* the members of the enum TransactionType, which is the type of what
\* determineTransactionType resolves to
TransactionTypes == SwapTypes \cup {TRANSFER}

\* lines 46-66: what buildSwapResponse throws before the quote is requested
\* ("none": nothing)
QuoteError(request, cfg, type, thrown) ==
    IF ValidationFails(request, cfg) THEN "validation failed"
    ELSE IF thrown THEN "determineTransactionType rejected"
    ELSE IF type = BUY /\ FeeRejects(request.sellQuantity, cfg)
         THEN "calculateFeeAmount rejected"
    ELSE "none"

\* lines 110-138: what buildSwapResponse throws once getSwapInstructions
\* has settled ("none": nothing)
AssembleError(type, quote, cfg) ==
    IF quote.thrown THEN "getSwapInstructions rejected"
    ELSE IF Len(quote.swapInstructions) = 0 THEN "No swap instruction received"
    ELSE IF type = BUY THEN "none"
    ELSE IF type = SELL_ALL \/ type = SELL_PARTIAL
         THEN IF FeeRejects(quote.outAmount, cfg)
              THEN "calculateFeeAmount rejected"
              ELSE "none"
    ELSE "Invalid swap type"

\* lines 46-114 of buildSwapResponse, up to the request to Jupiter: the
\* checks, the transaction type (determineTransactionType resolves to type,
\* or rejects when thrown), the fee of a BUY, the slippage settings and the
\* quote request. A throw lands in the catch block of the loop.
BuildQuote(c, type, thrown) ==
    /\ c \in FetchCalls
    /\ calls[c].pc = "building"
    /\ LET request == calls[c].request
           cfg == calls[c].buildCfg
           error == QuoteError(request, cfg, type, thrown)
       IN IF error # "none"
          THEN LoopCatch(c, error)
          ELSE /\ calls' = [calls EXCEPT
                     ![c].pc = "quoting", ![c].type = type,
                     ![c].quote = QuoteGetRequest(request, type, cfg)]
               /\ UNCHANGED chainBuilds
    /\ UNCHANGED <<registry, chainMax, swapSubscriptions, streams>>

\* FeeService.createFeeTransferInstruction: one instruction moving the
\* amount from the account to the fee recipient
CreateFeeTransferInstruction(fromAccount, amount) ==
    [kind |-> "fee", from |-> fromAccount, amount |-> amount]

\* lines 110-181 of buildSwapResponse, from the answer of Jupiter: the fee
\* transfer, the order of the instructions, the registration and the
\* response.
BuildAssemble(c, quote) ==
    /\ c \in FetchCalls
    /\ calls[c].pc = "quoting"
    /\ LET request == calls[c].request
           cfg == calls[c].buildCfg
           type == calls[c].type
           error == AssembleError(type, quote, cfg)
           feeTransferInstruction ==
               CreateFeeTransferInstruction(FeeAccount(type),
                   FeeAmount(request, type, cfg, quote))
           tokenCloseInstruction == TokenCloseInstruction(type)
       IN IF error # "none"
          THEN /\ LoopCatch(c, error)
               /\ UNCHANGED registry
          ELSE /\ registry' = RegisterTransaction(registry, c,
                     TxRegistryData(type, request, cfg,
                                    calls[c].buildAttempt, calls[c].chain))
               /\ calls' = [calls EXCEPT ![c] =
                     Finish([calls[c] EXCEPT !.message =
                         [swapInstructions |-> quote.swapInstructions,
                          feeTransferInstruction |-> feeTransferInstruction,
                          tokenCloseInstruction |-> tokenCloseInstruction,
                          organizedInstructions |->
                              OrganizeInstructions(quote.swapInstructions,
                                  feeTransferInstruction,
                                  tokenCloseInstruction),
                          outAmount |-> quote.outAmount,
                          hasFee |-> feeTransferInstruction.kind # "null"]],
                         "ok", c)]
               /\ UNCHANGED chainBuilds
    /\ UNCHANGED <<chainMax, swapSubscriptions, streams>>

Init ==
    /\ registry = << >>
    /\ calls = [c \in Calls |-> IdleCall]
    /\ chainBuilds = [ch \in Chains |-> 0]
    /\ chainMax = [ch \in Chains |-> 0]
    /\ swapSubscriptions = << >>
    /\ streams = 0

\* the pipeline: fetchSwap, getTransfer and two signAndSendTransaction
Next ==
    \/ \E c \in FetchCalls, request \in Requests, cfg \in Configs :
          FetchSwap(c, request, cfg)
    \/ \E c \in Calls : BuildSucceeds(c)
    \/ \E c \in Calls : BuildFails(c)
    \/ \E c \in TransferCalls : GetTransfer(c)
    \/ \E c \in SasCalls, key \in Keys \cup {UnknownKey} : SasLookup(c, key)
    \/ \E c \in SasCalls, cfg \in Configs : SasSubmit(c, cfg)
    \/ \E c \in SasCalls : SasSuccess(c)
    \/ \E c \in SasCalls : SasRejects(c)
    \/ \E c \in SasCalls : SasCatch(c)

Spec == Init /\ [][Next]_vars

\* the pipeline with the swap stream: fetchSwap, the stream of one user with
\* one tick, and one signAndSendTransaction
NextStream ==
    \/ \E c \in FetchCalls, request \in Requests, cfg \in Configs :
          FetchSwap(c, request, cfg)
    \/ \E c \in Calls : BuildSucceeds(c)
    \/ \E c \in Calls : BuildFails(c)
    \/ \E key \in Keys \cup {UnknownKey} : SasLookup("s1", key)
    \/ \E cfg \in Configs : SasSubmit("s1", cfg)
    \/ SasSuccess("s1")
    \/ SasRejects("s1")
    \/ SasCatch("s1")
    \/ \E u \in Users, request \in StreamRequests : StartSwapStream(u, request)
    \/ \E u \in Users : StopSwapStream(u)
    \/ \E c \in TickCalls, u \in Users : Tick(c, u)
    \/ \E c \in TickCalls, cfg \in Configs : TickBuild(c, cfg)
    \/ \E c \in TickCalls : TickBuildSucceeds(c)
    \/ \E c \in TickCalls : TickBuildFails(c)

SpecStream == Init /\ [][NextStream]_vars

\* the pipeline with re-issue: fetchSwap, fetchPresignedSwap and one
\* signAndSendTransaction
NextPresigned ==
    \/ \E c \in FetchCalls, request \in Requests, cfg \in Configs :
          FetchSwap(c, request, cfg)
    \/ \E c \in PresignedCalls, request \in PresignedRequests, cfg \in Configs :
          FetchPresignedSwap(c, request, cfg)
    \/ \E c \in Calls : BuildSucceeds(c)
    \/ \E c \in Calls : BuildFails(c)
    \/ \E c \in PresignedCalls : PresignedBuildSucceeds(c)
    \/ \E c \in PresignedCalls : PresignedConsume(c)
    \/ \E c \in PresignedCalls : PresignedReturn(c)
    \/ \E c \in PresignedCalls : PresignedSignFails(c)
    \/ \E key \in Keys \cup {UnknownKey} : SasLookup("s1", key)
    \/ \E cfg \in Configs : SasSubmit("s1", cfg)
    \/ SasSuccess("s1")
    \/ SasRejects("s1")
    \/ SasCatch("s1")

SpecPresigned == Init /\ [][NextPresigned]_vars

\* the pipeline with expiry: fetchSwap, the expiry of registry entries and
\* one signAndSendTransaction
NextExpiry ==
    \/ \E c \in FetchCalls, request \in Requests, cfg \in Configs :
          FetchSwap(c, request, cfg)
    \/ \E c \in Calls : BuildSucceeds(c)
    \/ \E c \in Calls : BuildFails(c)
    \/ \E key \in Keys : Expire(key)
    \/ \E key \in Keys \cup {UnknownKey} : SasLookup("s1", key)
    \/ \E cfg \in Configs : SasSubmit("s1", cfg)
    \/ SasSuccess("s1")
    \/ SasRejects("s1")
    \/ SasCatch("s1")

SpecExpiry == Init /\ [][NextExpiry]_vars

\* the stream map: startSwapStream, stopSwapStream, updateSwapRequest and
\* one tick
NextStreamMap ==
    \/ \E c \in StartCalls, u \in Users, request \in StreamRequests :
          ServiceStartSwapStream(c, u, request)
    \/ \E c \in StopCalls, u \in Users : ServiceStopSwapStream(c, u)
    \/ \E c \in UpdateCalls, u \in Users, request \in StreamRequests,
          cfg \in Configs : UpdateSwapRequest(c, u, request, cfg)
    \/ \E c \in UpdateCalls : UpdateBuildSucceeds(c)
    \/ \E c \in Calls : BuildFails(c)
    \/ \E c \in UpdateCalls : UpdateApply(c)
    \/ \E c \in TickCalls, u \in Users : Tick(c, u)
    \/ \E c \in TickCalls, cfg \in Configs : TickBuild(c, cfg)
    \/ \E c \in TickCalls : TickBuildSucceeds(c)
    \/ \E c \in TickCalls : TickBuildFails(c)

SpecStreamMap == Init /\ [][NextStreamMap]_vars

\* one fetchSwap with its builds followed step by step
NextBuild ==
    \/ \E c \in FetchCalls, request \in BuildRequests, cfg \in BuildConfigs :
          FetchSwap(c, request, cfg)
    \/ \E c \in FetchCalls, type \in TransactionTypes, thrown \in BOOLEAN :
          BuildQuote(c, type, thrown)
    \/ \E c \in FetchCalls, quote \in QuoteResults : BuildAssemble(c, quote)

SpecBuild == Init /\ [][NextBuild]_vars

\* getTransfer for every token, and two signAndSendTransaction
NextTransfer ==
    \/ \E c \in TransferCalls : GetTransfer(c)
    \/ \E c \in TransferCalls : GetTransferInvalid(c)
    \/ \E c \in TransferCalls, toBalance \in Balances,
          fromBalance \in Balances :
          GetTransferUsdc(c, toBalance, fromBalance)
    \/ \E c \in TransferCalls, fee \in RentExemptionFees :
          GetTransferRent(c, fee)
    \/ \E c \in TransferCalls : GetTransferVerify(c)
    \/ \E c \in SasCalls, key \in Keys \cup {UnknownKey} : SasLookup(c, key)
    \/ \E c \in SasCalls, cfg \in Configs : SasSubmit(c, cfg)
    \/ \E c \in SasCalls : SasSuccess(c)
    \/ \E c \in SasCalls : SasRejects(c)
    \/ \E c \in SasCalls : SasCatch(c)

SpecTransfer == Init /\ [][NextTransfer]_vars

\* an awaited buildSwapResponse settles: it resolves or rejects
BuildSettles(c) == BuildSucceeds(c) \/ BuildFails(c)

\* one fetchSwap, one getTransfer and one signAndSendTransaction, every
\* awaited build settling in the end
NextRebuild ==
    \/ \E c \in FetchCalls, request \in Requests, cfg \in Configs :
          FetchSwap(c, request, cfg)
    \/ \E c \in TransferCalls : GetTransfer(c)
    \/ \E c \in Calls : BuildSucceeds(c)
    \/ \E c \in Calls : BuildFails(c)
    \/ \E key \in Keys \cup {UnknownKey} : SasLookup("s1", key)
    \/ \E cfg \in Configs : SasSubmit("s1", cfg)
    \/ SasSuccess("s1")
    \/ SasRejects("s1")
    \/ SasCatch("s1")

SpecRebuild ==
    /\ Init
    /\ [][NextRebuild]_vars
    /\ \A c \in FetchCalls \cup SasCalls : WF_vars(BuildSettles(c))

\* Two ticks of the interval of one user's stream, with the stream started
\* and stopped around them.
NextTicks ==
    \/ \E c \in StartCalls, u \in Users, request \in StreamUpdateRequests : ServiceStartSwapStream(c, u, request)
    \/ \E c \in StopCalls, u \in Users : ServiceStopSwapStream(c, u)
    \/ \E c \in AllTickCalls, u \in Users : Tick(c, u)
    \/ \E c \in AllTickCalls, cfg \in Configs : TickBuild(c, cfg)
    \/ \E c \in AllTickCalls : TickBuildSucceeds(c)
    \/ \E c \in AllTickCalls : TickBuildFails(c)

SpecTicks == Init /\ [][NextTicks]_vars

\* one stream, its updates and one tick
NextStreamUpdate ==
    \/ \E c \in StartCalls, u \in Users, request \in StreamUpdateRequests :
          ServiceStartSwapStream(c, u, request)
    \/ \E c \in UpdateCalls, u \in Users, request \in StreamUpdateRequests,
          cfg \in Configs : UpdateSwapRequest(c, u, request, cfg)
    \/ \E c \in UpdateCalls : UpdateBuildSucceeds(c)
    \/ \E c \in UpdateCalls : BuildFails(c)
    \/ \E c \in UpdateCalls : UpdateApply(c)
    \/ \E c \in TickCalls, u \in Users : Tick(c, u)
    \/ \E c \in TickCalls, cfg \in Configs : TickBuild(c, cfg)
    \/ \E c \in TickCalls : TickBuildSucceeds(c)
    \/ \E c \in TickCalls : TickBuildFails(c)

SpecStreamUpdate == Init /\ [][NextStreamUpdate]_vars

(* ------------------------------ claims --------------------------------- *)
\* the call c has handed the stored message of its key to the network
HasSubmitted(c) ==
    \/ calls[c].pc \in {"submitted", "building"}
    \/ calls[c].pc = "done" /\ calls[c].result # "miss"

\* in this step the submission of call c ends in a failure
SubmissionFails(c) ==
    /\ calls[c].pc = "submitted"
    /\ calls'[c].pc # "submitted"
    /\ calls'[c].result # "success"

\* in this step the failed submission of call c is surfaced to the caller
\* with no build
SurfacesFailure(c) ==
    /\ calls'[c].pc = "done"
    /\ calls'[c].result \in {"fail", "rejected"}
    /\ calls'[c].nbuilds = 0
    /\ chainBuilds' = chainBuilds
    /\ registry' = registry

\* C1: once signAndSendTransaction has read the entry of key k to submit it
\* and has returned or thrown (success, failure or rebuild), k is no longer
\* in the registry.
C1_ConsumedOnSubmission ==
    \A c \in SasCalls :
        calls[c].pc = "done" /\ calls[c].result # "miss"
            => calls[c].key \notin DOMAIN registry

\* C2: of two signAndSendTransaction calls that carry the same key, at most
\* one passes the registry lookup and submits the stored message.
C2_AtMostOneSubmission ==
    \A c1, c2 \in SasCalls :
        c1 # c2 /\ HasSubmitted(c1) /\ HasSubmitted(c2)
            => calls[c1].key # calls[c2].key

\* C3: when the submission of a non-TRANSFER entry fails, the original
\* request had no slippageBps and entry.buildAttempts + 1 < maxBuildAttempts,
\* the error is not surfaced: the call goes on to rebuild.
C3_RetriableFailureRebuilds ==
    [][\A c \in SasCalls :
          ( /\ SubmissionFails(c)
            /\ calls[c].entry.transactionType # TRANSFER
            /\ calls[c].entry.activeSwapRequest.slippageBps = Undefined
            /\ calls[c].entry.buildAttempts + 1 < calls[c].cfg.MAX_BUILD_ATTEMPTS )
          => calls'[c].pc = "building" \/ calls'[c].result = "buildfail"]_vars

\* C4: when the submission of a TRANSFER entry fails, the failure is surfaced
\* and buildSwapResponse is not invoked, whatever the attempt budget.
C4_TransfersNeverRebuild ==
    [][\A c \in SasCalls :
          SubmissionFails(c) /\ calls[c].entry.transactionType = TRANSFER
          => SurfacesFailure(c)]_vars

\* C4 witness: the submission of a TRANSFER entry has thrown with attempt
\* budget remaining and the call has failed.
C4_Witness ==
    \E c \in SasCalls :
        /\ calls[c].pc = "done" /\ calls[c].result = "fail"
        /\ calls[c].budgetLeft
        /\ calls[c].key \in DOMAIN registry
        /\ registry[calls[c].key].transactionType = TRANSFER

\* C5: among non-TRANSFER entries with attempt budget remaining, a failing
\* submission is surfaced without rebuild exactly when the original request
\* carried an explicit slippageBps.
C5_PinnedSlippageDecides ==
    [][\A c \in SasCalls :
          ( /\ SubmissionFails(c)
            /\ calls[c].entry.transactionType # TRANSFER
            /\ calls[c].entry.buildAttempts + 1 < calls[c].cfg.MAX_BUILD_ATTEMPTS )
          => ( SurfacesFailure(c)
               <=> calls[c].entry.activeSwapRequest.slippageBps # Undefined )]_vars

\* C6: when a submission fails and entry.buildAttempts + 1 >= the
\* MAX_BUILD_ATTEMPTS of the config the call has read, the failure is
\* surfaced, no build is performed and no entry is registered.
C6_BudgetExhaustedIsFatal ==
    [][\A c \in SasCalls :
          ( /\ SubmissionFails(c)
            /\ calls[c].entry.buildAttempts + 1 >= calls[c].cfg.MAX_BUILD_ATTEMPTS )
          => SurfacesFailure(c)]_vars

\* C6 witness: the submission of an auto-slippage swap entry has thrown with
\* no attempt budget left and the call has failed.
C6_Witness ==
    \E c \in SasCalls :
        /\ calls[c].pc = "done" /\ calls[c].result = "fail"
        /\ ~calls[c].budgetLeft
        /\ calls[c].key \in DOMAIN registry
        /\ registry[calls[c].key].transactionType # TRANSFER
        /\ registry[calls[c].key].autoSlippage

\* C7: the number of buildSwapResponse invocations of one logical request
\* chain is at most the maxBuildAttempts of the chain.
C7_BuildsPerChainBounded ==
    \A ch \in Chains : chainBuilds[ch] <= chainMax[ch]

\* C8: every registry entry of a build has buildAttempts <= the
\* maxBuildAttempts of its config snapshot, and no build in flight (from
\* fetchSwap, from a rebuild or from a stream tick) has a buildAttempt above
\* the maxBuildAttempts of the config it was given.
C8_BuildAttemptsBounded ==
    /\ \A k \in DOMAIN registry :
          registry[k].cfg # NoCfg
              => registry[k].buildAttempts <= registry[k].cfg.MAX_BUILD_ATTEMPTS
    /\ \A c \in Calls :
          calls[c].pc = "building"
              => calls[c].buildAttempt <= calls[c].buildCfg.MAX_BUILD_ATTEMPTS

\* C8 witness: the rebuild of a transaction built by a stream tick has
\* registered an entry whose buildAttempts is the maxBuildAttempts of its
\* snapshot.
C8_Witness ==
    \E k \in SasCalls \cap DOMAIN registry :
        /\ registry[k].chain \in TickCalls
        /\ registry[k].buildAttempts = registry[k].cfg.MAX_BUILD_ATTEMPTS

\* C9: the entry registered by a rebuild has buildAttempts greater than the
\* stale entry it replaces, and equal to the stale buildAttempts + 1 when the
\* first rebuild attempt succeeds.
C9_RebuildIncreasesAttempts ==
    \A c \in SasCalls :
        ( /\ calls[c].pc = "done" /\ calls[c].result = "rebuild"
          /\ calls[c].respKey \in DOMAIN registry )
        => /\ registry[calls[c].respKey].buildAttempts > calls[c].prior
           /\ calls[c].nfails = 0
                => registry[calls[c].respKey].buildAttempts = calls[c].prior + 1

\* C9 witness: a rebuild has succeeded at its first attempt on a stale entry
\* of a fetchSwap.
C9_Witness ==
    \E c \in SasCalls :
        /\ calls[c].pc = "done" /\ calls[c].result = "rebuild"
        /\ calls[c].nfails = 0 /\ calls[c].prior >= 1
        /\ calls[c].respKey \in DOMAIN registry
        /\ calls[c].key \notin DOMAIN registry

\* C10: a fetchSwap without slippageBps whose build fails N times and then
\* succeeds returns the response of attempt N + 1, registered with
\* buildAttempts = N + 1.
C10_AttemptsCountFailures ==
    \A c \in FetchCalls :
        ( /\ calls[c].pc = "done" /\ calls[c].result = "ok"
          /\ calls[c].respKey \in DOMAIN registry
          /\ registry[calls[c].respKey].activeSwapRequest.slippageBps = Undefined )
        => /\ registry[calls[c].respKey].buildAttempts = calls[c].nfails + 1
           /\ calls[c].nbuilds = calls[c].nfails + 1

\* C10 witness: a fetchSwap without slippageBps has succeeded at its third
\* attempt.
C10_Witness ==
    \E c \in FetchCalls :
        /\ calls[c].pc = "done" /\ calls[c].result = "ok"
        /\ calls[c].nfails = 2
        /\ calls[c].respKey \in DOMAIN registry
        /\ registry[calls[c].respKey].activeSwapRequest.slippageBps = Undefined
        /\ registry[calls[c].respKey].buildAttempts = 3

\* C11: a fetchSwap whose request has an explicit slippageBps invokes
\* buildSwapResponse exactly once: while its build is in flight it is the
\* first attempt, and whatever the outcome of the build the call ends with
\* it, with no further attempt.
C11_PinnedBuildsOnce ==
    [][\A c \in FetchCalls :
          ( /\ calls[c].pc = "building"
            /\ calls[c].request.slippageBps # Undefined )
          => /\ calls[c].nbuilds = 1
             /\ calls'[c] # calls[c]
                  => calls'[c].pc = "done" /\ calls'[c].nbuilds = 1]_vars

\* C11 witness: the one build of a fetchSwap has failed and the call has
\* surfaced the error after one failure although its config allowed more
\* attempts, which only a request with slippageBps does.
C11_Witness ==
    \E c \in FetchCalls :
        /\ calls[c].pc = "done" /\ calls[c].result = "buildfail"
        /\ calls[c].nbuilds = 1 /\ calls[c].nfails = 1
        /\ chainMax[c] >= 2

\* in this step the failed submission of call c is taken to the rebuild of
\* line 538: the loop is entered, or left at once for the throw of line 411
TakesRebuildPath(c) ==
    \/ calls'[c].pc = "building"
    \/ calls'[c].pc = "done" /\ calls'[c].result = "buildfail"

\* C12: when a submission throws, whether signAndSendTransaction rebuilds
\* is what the config snapshot stored in the entry at build time decides,
\* whatever the live config has become since.
C12_SnapshotDecidesRebuild ==
    [][\A c \in SasCalls :
          ( /\ SubmissionFails(c)
            /\ calls'[c].result # "rejected"
            /\ calls[c].entry.cfg # NoCfg )
          => ( TakesRebuildPath(c)
               <=> RebuildDecision(calls[c].entry, calls[c].entry.cfg) = "rebuild" )]_vars

\* C13: from the moment a signAndSendTransaction has gone to the rebuild,
\* its stale key is absent from the registry, whether the rebuild is still
\* building, has failed at every attempt or has returned; and when it
\* returns a rebuild the key of the rebuilt response is present.
C13_RebuildReplacesEntry ==
    [][\A c \in SasCalls :
          /\ ( \/ calls'[c].pc = "building"
               \/ calls'[c].pc = "done"
                    /\ calls'[c].result \in {"rebuild", "buildfail"} )
             => calls'[c].key \notin DOMAIN registry'
          /\ ( calls[c].pc = "building" /\ calls'[c].result = "rebuild" )
             => /\ calls'[c].respKey \in DOMAIN registry'
                /\ calls'[c].respKey # calls'[c].key]_vars

\* C13 witness: a rebuild has returned after one failed attempt; the stale
\* key is gone and the key of the rebuilt response is registered.
C13_Witness ==
    \E c \in SasCalls :
        /\ calls[c].pc = "done" /\ calls[c].result = "rebuild"
        /\ calls[c].nfails = 1
        /\ calls[c].key \notin DOMAIN registry
        /\ calls[c].respKey \in DOMAIN registry

\* C14: once fetchPresignedSwap has read the entry of the message it built,
\* the key is absent from the registry: while it signs, when it returns and
\* ever after; a signAndSendTransaction with the returned message ends with
\* "Transaction not found in registry".
C14_ReissueConsumesEntry ==
    /\ \A c \in PresignedCalls :
          ( \/ calls[c].pc = "signing"
            \/ calls[c].pc = "done" /\ calls[c].result \in {"ok", "signfail"} )
          => calls[c].key \notin DOMAIN registry
    /\ \A s \in SasCalls :
          calls[s].key \in PresignedCalls
              => calls[s].pc = "done" /\ calls[s].result = "miss"

\* C14 witness: fetchPresignedSwap has returned its message and a
\* signAndSendTransaction with that message has missed.
C14_Witness ==
    \E c \in PresignedCalls, s \in SasCalls :
        /\ calls[c].pc = "done" /\ calls[c].result = "ok"
        /\ calls[c].respKey = c
        /\ calls[s].key = c
        /\ calls[s].pc = "done" /\ calls[s].result = "miss"

\* C15: a signAndSendTransaction whose key is not in the registry ends at
\* the lookup with "Transaction not found in registry": it submits nothing,
\* starts no build and leaves the registry as it was.
C15_MissHasNoEffect ==
    [][\A c \in SasCalls, key \in Keys \cup {UnknownKey} :
          ( /\ calls[c].pc = "idle"
            /\ calls'[c].pc # "idle"
            /\ calls'[c].key = key
            /\ key \notin DOMAIN registry )
          => /\ calls'[c].pc = "done"
             /\ calls'[c].result = "miss"
             /\ calls'[c].nbuilds = 0
             /\ calls'[c].respKey = "none"
             /\ registry' = registry
             /\ chainBuilds' = chainBuilds]_vars

\* C15 witness: a signAndSendTransaction has missed with the key of a
\* response that was returned and has since been consumed.
C15_Witness ==
    \E c \in SasCalls :
        /\ calls[c].pc = "done" /\ calls[c].result = "miss"
        /\ calls[c].key \in Keys
        /\ calls[calls[c].key].respKey = calls[c].key

\* C16: once the entry of a key has expired, a signAndSendTransaction that
\* looks the key up misses, and no signAndSendTransaction hands the expired
\* message to the network.
C16_ExpiredNeverSubmitted ==
    [][\A s \in SasCalls :
          /\ ( /\ calls[s].pc = "idle"
               /\ calls'[s].pc # "idle"
               /\ calls'[s].key \in Keys
               /\ calls[calls'[s].key].expired )
             => calls'[s].pc = "done" /\ calls'[s].result = "miss"
          /\ ( calls[s].pc = "config" /\ calls'[s].pc = "submitted" )
             => ~calls[calls[s].key].expired]_vars

\* C17: a startSwapStream for a user that has a stream changes neither the
\* map (subject, subscription and request of the user stay as they are) nor
\* the number of periodic tasks created, and returns the subject that is in
\* the map; every startSwapStream returns the subject the map then holds
\* for the user.
C17_StartIsIdempotent ==
    [][\A c \in StartCalls :
          ( calls[c].pc = "idle" /\ calls'[c].pc = "done" )
          => /\ calls'[c].user \in DOMAIN swapSubscriptions'
             /\ calls'[c].stream = swapSubscriptions'[calls'[c].user].id
             /\ calls'[c].user \in DOMAIN swapSubscriptions
                  => /\ swapSubscriptions' = swapSubscriptions
                     /\ streams' = streams]_vars

\* C17 witness: two startSwapStream of one user have returned the same
\* subject and one periodic task was created.
C17_Witness ==
    \E c1, c2 \in StartCalls :
        /\ c1 # c2
        /\ calls[c1].pc = "done" /\ calls[c2].pc = "done"
        /\ calls[c1].user = calls[c2].user
        /\ calls[c1].stream = calls[c2].stream
        /\ calls[c1].stream >= 1
        /\ streams = 1

\* C18: an updateSwapRequest for a user without a stream ends with "No
\* active swap stream found to update" at once: no build is started,
\* nothing is registered and the stream map is unchanged.
C18_UpdateNeedsStream ==
    [][\A c \in UpdateCalls :
          ( /\ calls[c].pc = "idle"
            /\ calls'[c].pc # "idle"
            /\ calls'[c].user \notin DOMAIN swapSubscriptions )
          => /\ calls'[c].pc = "done"
             /\ calls'[c].result = "nostream"
             /\ calls'[c].nbuilds = 0
             /\ registry' = registry
             /\ chainBuilds' = chainBuilds
             /\ swapSubscriptions' = swapSubscriptions]_vars

\* C18 witness: an updateSwapRequest has failed for want of a stream, after
\* the stream of its user was stopped.
C18_Witness ==
    \E c \in UpdateCalls, q \in StopCalls :
        /\ calls[c].pc = "done" /\ calls[c].result = "nostream"
        /\ calls[q].pc = "done" /\ calls[q].stream >= 1
        /\ calls[q].user = calls[c].user

\* C19: a stopSwapStream removes the user from the stream map and leaves the
\* rest of the map alone, and changes nothing when the user has no stream;
\* a tick starts only for a stream that is in the map, and a response is
\* emitted only on the subject of a stream that is in the map, so none is
\* emitted on the subject of a stopped stream.
C19_StopEndsStream ==
    [][/\ \A c \in StopCalls :
            ( calls[c].pc = "idle" /\ calls'[c].pc = "done" )
            => /\ calls'[c].user \notin DOMAIN swapSubscriptions'
               /\ \A u \in DOMAIN swapSubscriptions \ {calls'[c].user} :
                     /\ u \in DOMAIN swapSubscriptions'
                     /\ swapSubscriptions'[u] = swapSubscriptions[u]
               /\ calls'[c].user \notin DOMAIN swapSubscriptions
                    => swapSubscriptions' = swapSubscriptions
               /\ registry' = registry /\ streams' = streams
       /\ \A c \in TickCalls :
            /\ ( calls[c].pc = "idle" /\ calls'[c].pc = "config" )
               => StreamSubscribed(calls'[c].stream)
            /\ ( calls[c].pc = "building" /\ calls'[c].respKey # "none" )
               => StreamSubscribed(calls[c].stream)]_vars

\* C19 witness: a stream was stopped while its tick was building, and the
\* response of the tick was dropped.
C19_Witness ==
    \E c \in TickCalls, q \in StopCalls :
        /\ calls[c].pc = "done" /\ calls[c].result = "dropped"
        /\ calls[q].pc = "done" /\ calls[q].stream >= 1
        /\ calls[q].user \notin DOMAIN swapSubscriptions

\* C20: no build succeeds for a request whose explicit slippageBps lies
\* outside [MIN_SLIPPAGE_BPS, USER_SLIPPAGE_BPS_MAX] of the config of the
\* build, the value 0 included: no entry is registered for such a request.
C20_SlippageValidated ==
    \A k \in DOMAIN registry :
        ( /\ registry[k].cfg # NoCfg
          /\ registry[k].activeSwapRequest.slippageBps # Undefined )
        => /\ registry[k].activeSwapRequest.slippageBps
                >= registry[k].cfg.MIN_SLIPPAGE_BPS
           /\ registry[k].activeSwapRequest.slippageBps
                <= registry[k].cfg.USER_SLIPPAGE_BPS_MAX

\* C21: a build that fails the checks at the head of buildSwapResponse (a
\* slippageBps out of range, or no derived sell token account) is not
\* retried: the call ends with the failure after exactly one build attempt,
\* with and without an explicit slippageBps.
C21_ValidationSurfacesAtOnce ==
    [][\A c \in FetchCalls :
          ( /\ calls[c].pc = "building"
            /\ ValidationFails(calls[c].request, calls[c].buildCfg)
            /\ calls'[c] # calls[c] )
          => /\ calls'[c].pc = "done"
             /\ calls'[c].result = "buildfail"
             /\ calls'[c].nbuilds = 1]_vars

\* the quantity the fee of a finished build was computed from: sellQuantity
\* for a BUY, the output amount of the quote for a sell
FeeBase(c) ==
    IF calls[c].type = BUY
    THEN registry[c].activeSwapRequest.sellQuantity
    ELSE calls[c].message.outAmount

\* the call c has returned a response built step by step
Built(c) ==
    /\ calls[c].pc = "done"
    /\ calls[c].result = "ok"
    /\ calls[c].message # NoMessage
    /\ c \in DOMAIN registry

\* C22: the fee is placed by transaction type. A BUY asks the quote for
\* sellQuantity minus the fee computed from sellQuantity, and transfers that
\* fee from the sell token account; SELL_PARTIAL and SELL_ALL ask the quote
\* for the full sellQuantity, and their fee is computed from the output
\* amount the quote resolved and transferred from the buy token account.
C22_FeePlacedByType ==
    \A c \in FetchCalls :
        /\ calls[c].pc = "quoting" =>
              calls[c].quote.amount =
                  IF calls[c].type = BUY
                  THEN calls[c].request.sellQuantity
                         - CalculateFeeAmount(calls[c].request.sellQuantity,
                                              BUY, calls[c].buildCfg)
                  ELSE calls[c].request.sellQuantity
        /\ ( Built(c) /\ calls[c].message.hasFee ) =>
              LET fee == calls[c].message.feeTransferInstruction
                  entry == registry[c]
              IN IF calls[c].type = BUY
                 THEN /\ fee.from = "sellTokenAccount"
                      /\ fee.amount = CalculateFeeAmount(
                            entry.activeSwapRequest.sellQuantity, BUY,
                            entry.cfg)
                 ELSE /\ fee.from = "buyTokenAccount"
                      /\ fee.amount = CalculateFeeAmount(
                            calls[c].message.outAmount, calls[c].type,
                            entry.cfg)
                      /\ calls[c].quote.amount =
                            entry.activeSwapRequest.sellQuantity

\* a sell whose fee differs from the fee its sellQuantity would give
C22_Witness ==
    \E c \in FetchCalls :
        /\ Built(c)
        /\ calls[c].type \in {SELL_PARTIAL, SELL_ALL}
        /\ calls[c].message.hasFee
        /\ calls[c].message.feeTransferInstruction.amount > 0
        /\ calls[c].message.feeTransferInstruction.amount #
              CalculateFeeAmount(registry[c].activeSwapRequest.sellQuantity,
                                 calls[c].type, registry[c].cfg)

C25_BuyExample ==
    \A c \in FetchCalls :
        /\ ( /\ calls[c].pc = "quoting"
             /\ calls[c].type = BUY
             /\ calls[c].request.sellQuantity = 1000000
             /\ calls[c].buildCfg.BUY_FEE_BPS = 100 )
           => calls[c].quote.amount = 990000
        /\ ( Built(c) /\ calls[c].type = BUY /\ calls[c].message.hasFee ) =>
              /\ calls[c].quote.amount
                    + calls[c].message.feeTransferInstruction.amount
                 = registry[c].activeSwapRequest.sellQuantity
              /\ ( /\ registry[c].activeSwapRequest.sellQuantity = 1000000
                   /\ registry[c].cfg.BUY_FEE_BPS = 100 )
                 => calls[c].message.feeTransferInstruction.amount = 10000

\* the BUY of the example has been built
C25_Witness ==
    \E c \in FetchCalls :
        /\ Built(c)
        /\ calls[c].type = BUY
        /\ registry[c].activeSwapRequest.sellQuantity = 1000000
        /\ registry[c].cfg.BUY_FEE_BPS = 100
        /\ calls[c].quote.amount = 990000
        /\ calls[c].message.feeTransferInstruction.amount = 10000

\* C26: a transfer of the sponsored token to a recipient without token
\* account, from a sender whose balance before the transfer is below the
\* rent exemption fee, fails with the insufficient-balance error: no
\* instruction list is compiled and no entry is registered.
C26_InsufficientBalanceFails ==
    [][\A c \in TransferCalls :
          ( /\ calls[c].pc = "rent"
            /\ calls[c].transfer.toTokenAccountSolBalance = 0
            /\ calls[c].transfer.fromTokenAccountUsdcBalance
                  < calls[c].transfer.rentExemptionFeeAmountUsdcBaseUnits
            /\ calls'[c] # calls[c] )
          => /\ calls'[c].pc = "done"
             /\ calls'[c].result = "insufficient"
             /\ calls'[c].message = NoMessage
             /\ calls'[c].respKey = "none"
             /\ registry' = registry]_vars

\* a transfer has failed for lack of balance and nothing is registered
C26_Witness ==
    \E c \in TransferCalls :
        /\ calls[c].pc = "done"
        /\ calls[c].result = "insufficient"
        /\ calls[c].message = NoMessage
        /\ c \notin DOMAIN registry

\* C27: the build attempts of one chain are strictly sequential in every
\* interleaving, concurrent submissions of one key included: no two
\* buildSwapResponse invocations of one chain are in flight at once.
C27_ChainBuildsSequential ==
    \A c1, c2 \in Calls :
        ( /\ c1 # c2
          /\ calls[c1].pc = "building"
          /\ calls[c2].pc = "building" )
        => calls[c1].chain # calls[c2].chain

\* the calls that run buildSwapResponseWithRebuild
LoopCalls == FetchCalls \cup SasCalls

\* C28: buildSwapResponseWithRebuild always terminates; its attempts carry
\* the consecutive numbers priorAttempts + 1, priorAttempts + 2, ...; it
\* stops at the first success or the first failure that is not retried; it
\* builds at most max(0, MAX_BUILD_ATTEMPTS - priorAttempts) times; with
\* priorAttempts >= MAX_BUILD_ATTEMPTS it builds nothing and throws.
C28_LoopTerminatesInOrder ==
    /\ [](\A c \in LoopCalls :
            calls[c].pc = "building" =>
                /\ calls[c].buildAttempt = calls[c].prior + calls[c].nbuilds
                /\ calls[c].nbuilds >= 1
                /\ calls[c].nbuilds
                      <= calls[c].buildCfg.MAX_BUILD_ATTEMPTS - calls[c].prior)
    /\ [][\A c \in LoopCalls :
            /\ ( calls[c].pc = "building" /\ calls'[c] # calls[c] ) =>
                  \/ /\ calls'[c].pc = "done"
                     /\ calls'[c].nbuilds = calls[c].nbuilds
                  \/ /\ calls'[c].pc = "building"
                     /\ ~GivesUp(calls[c].buildAttempt, calls[c].buildCfg,
                                 calls[c].request)
                     /\ calls'[c].nfails = calls[c].nfails + 1
                     /\ calls'[c].buildAttempt = calls[c].buildAttempt + 1
                     /\ calls'[c].nbuilds = calls[c].nbuilds + 1
            /\ ( /\ c \in SasCalls
                 /\ SasCatch(c)
                 /\ RebuildDecision(calls[c].entry, calls[c].cfg) = "rebuild"
                 /\ calls[c].entry.buildAttempts
                       >= calls[c].entry.cfg.MAX_BUILD_ATTEMPTS ) =>
                  /\ calls'[c].pc = "done"
                  /\ calls'[c].result = "buildfail"
                  /\ calls'[c].nbuilds = 0
                  /\ chainBuilds' = chainBuilds]_vars
    /\ \A c \in LoopCalls :
            (calls[c].pc = "building") ~> (calls[c].pc = "done")

\* a rebuild that started after one earlier attempt is at its second build,
\* numbered 3
C28_Witness ==
    \E c \in SasCalls :
        /\ calls[c].pc = "building"
        /\ calls[c].prior = 1
        /\ calls[c].nbuilds = 2
        /\ calls[c].buildAttempt = 3

\* C29: the slippage policy is resolved with the priority explicit > auto
\* > default. A request with a slippageBps has its quote requested with that
\* value and autoSlippage = false; otherwise, with AUTO_SLIPPAGE on, with no
\* slippageBps and autoSlippage = true under the ceiling
\* MAX_AUTO_SLIPPAGE_BPS; otherwise with MAX_DEFAULT_SLIPPAGE_BPS and
\* autoSlippage = false. The autoSlippage of the registered entry is the one
\* sent with the quote request.
C29_SlippagePriority ==
    \A c \in FetchCalls :
        /\ calls[c].pc = "quoting" =>
              LET request == calls[c].request
                  cfg == calls[c].buildCfg
                  quote == calls[c].quote
              IN /\ quote.maxAutoSlippageBps = cfg.MAX_AUTO_SLIPPAGE_BPS
                 /\ IF request.slippageBps # Undefined
                    THEN /\ quote.slippageBps = request.slippageBps
                         /\ quote.autoSlippage = FALSE
                    ELSE IF cfg.AUTO_SLIPPAGE
                    THEN /\ quote.slippageBps = Undefined
                         /\ quote.autoSlippage = TRUE
                    ELSE /\ quote.slippageBps = cfg.MAX_DEFAULT_SLIPPAGE_BPS
                         /\ quote.autoSlippage = FALSE
        /\ Built(c) => registry[c].autoSlippage = calls[c].quote.autoSlippage

\* C30: organizeInstructions returns the route instructions in their
\* original order, then the fee transfer when there is one, then the token
\* account close when there is one; nothing is dropped, duplicated or
\* reordered, and the close instruction is last.
C30_InstructionOrder ==
    \A c \in FetchCalls :
        Built(c) =>
            LET message == calls[c].message
                organized == message.organizedInstructions
                n == Len(message.swapInstructions)
                withFee == message.feeTransferInstruction.kind # "null"
                withClose == message.tokenCloseInstruction.kind # "null"
            IN /\ Len(organized) = n + (IF withFee THEN 1 ELSE 0)
                                     + (IF withClose THEN 1 ELSE 0)
               /\ SubSeq(organized, 1, n) = message.swapInstructions
               /\ withFee =>
                     organized[n + 1] = message.feeTransferInstruction
               /\ withClose =>
                     organized[Len(organized)] = message.tokenCloseInstruction
               /\ \A i \in 1..Len(organized) :
                     organized[i].kind # "null"

\* a SELL_ALL built from a route of two instructions, with fee transfer and
\* close instruction
C30_Witness ==
    \E c \in FetchCalls :
        /\ Built(c)
        /\ Len(calls[c].message.swapInstructions) = 2
        /\ calls[c].message.feeTransferInstruction.kind = "fee"
        /\ calls[c].message.tokenCloseInstruction.kind = "close"
        /\ Len(calls[c].message.organizedInstructions) = 4

\* C31: a transfer of the native currency compiles exactly one
\* instruction, the transfer; a transfer of the sponsored token compiles
\* compute limit, compute price, create account, transfer, rent fee transfer
\* in that order, create account and rent fee transfer both there exactly
\* when the destination token account does not exist; a successful transfer
\* is registered with type TRANSFER, autoSlippage false, buildAttempts 1 and
\* neither request nor config snapshot; any other tokenId fails with
\* "Invalid transfer request" and registers nothing.
C31_TransferComposition ==
    \A c \in TransferCalls :
        calls[c].pc = "done" =>
            LET transfer == calls[c].transfer
                absent == transfer.toTokenAccountSolBalance = 0
            IN /\ transfer.tokenId = "SOLANA" =>
                     /\ calls[c].result = "ok"
                     /\ calls[c].message.allInstructions = <<"transfer">>
               /\ ( transfer.tokenId = "USDC" /\ calls[c].result = "ok" ) =>
                     calls[c].message.allInstructions =
                        IF absent
                        THEN <<"computeUnitLimit", "computeUnitPrice",
                               "createATA", "transfer", "createATAFee">>
                        ELSE <<"computeUnitLimit", "computeUnitPrice",
                               "transfer">>
               /\ ( calls[c].result = "ok" /\ c \in DOMAIN registry ) =>
                     /\ registry[c].transactionType = TRANSFER
                     /\ registry[c].autoSlippage = FALSE
                     /\ registry[c].buildAttempts = 1
                     /\ registry[c].activeSwapRequest = NoRequest
                     /\ registry[c].cfg = NoCfg
               /\ calls[c].result = "ok" => calls[c].respKey = c
               /\ transfer.tokenId = "OTHER" =>
                     /\ calls[c].result = "invalid"
                     /\ calls[c].message = NoMessage
                     /\ c \notin DOMAIN registry

\* a transfer of the sponsored token to a recipient without token account
\* has been built and registered
C31_Witness ==
    \E c \in TransferCalls :
        /\ calls[c].pc = "done"
        /\ calls[c].result = "ok"
        /\ calls[c].transfer.tokenId = "USDC"
        /\ calls[c].transfer.toTokenAccountSolBalance = 0
        /\ Len(calls[c].message.allInstructions) = 5
        /\ c \in DOMAIN registry

\* C32: one config per build operation. fetchSwap reads the live config
\* once; every build attempt of the call uses that value, whatever the live
\* config has become between two attempts, and the entry of a successful
\* attempt carries it.
C32_OneConfigPerCall ==
    [][\A c \in FetchCalls :
          /\ ( calls[c].pc = "building" /\ calls'[c].pc = "building" ) =>
                calls'[c].buildCfg = calls[c].buildCfg
          /\ ( /\ calls[c].pc = "building"
               /\ calls'[c].pc = "done"
               /\ calls'[c].result = "ok" ) =>
                registry'[c].cfg = calls[c].buildCfg]_vars

\* fetchSwap is at its second attempt while a submission has read a live
\* config that differs from the one fetchSwap read
C32_Witness ==
    \E c \in FetchCalls, s \in SasCalls :
        /\ calls[c].pc = "building"
        /\ calls[c].nbuilds = 2
        /\ calls[s].pc = "submitted"
        /\ calls[s].cfg \in Configs
        /\ calls[s].cfg # calls[c].buildCfg

\* C33: a rebuild chain has at most one live registry entry at any time:
\* in every interleaving of submissions, failures and rebuilds no two
\* registered entries descend from the same original request.
C33_OneLiveEntryPerChain ==
    \A k1, k2 \in DOMAIN registry :
        ( k1 # k2 /\ registry[k1].chain \in Chains )
        => registry[k1].chain # registry[k2].chain

\* C34: updateSwapRequest is all-or-nothing with respect to a concurrent
\* stopSwapStream: a call that has failed has registered no transaction, and
\* a call that has built a transaction ends by replacing the request of the
\* stream.
C34_UpdateAllOrNothing ==
    \A c \in UpdateCalls :
        ( calls[c].pc = "done" /\ calls[c].result # "ok" )
        => c \notin DOMAIN registry

\* C35: a stream map entry means a live stream: a user with an entry in the
\* stream map has a periodic re-quote task that is still running.
C35_EntryMeansLiveStream ==
    \A u \in DOMAIN swapSubscriptions : swapSubscriptions[u].subscribed

\* C36: once updateActiveRequest(user, r) has returned, every response
\* emitted on the stream of the user was built from r or from a later update:
\* a response is emitted only when it was built from the request the entry
\* holds at that moment. updateActiveRequest changes the request of the
\* entry and keeps its subject and its periodic subscription.
C36_EmitsFromCurrentRequest ==
    [][/\ \A c \in TickCalls :
            ( /\ calls[c].pc = "building"
              /\ calls'[c].pc = "done"
              /\ calls'[c].result = "ok" )
            => \E u \in DOMAIN swapSubscriptions :
                  /\ swapSubscriptions[u].id = calls[c].stream
                  /\ swapSubscriptions[u].request = calls[c].request
       /\ \A c \in UpdateCalls :
            ( /\ calls[c].pc = "fetched"
              /\ calls'[c].pc = "done"
              /\ calls'[c].result = "ok" )
            => /\ DOMAIN swapSubscriptions' = DOMAIN swapSubscriptions
               /\ \A u \in DOMAIN swapSubscriptions :
                     /\ swapSubscriptions'[u].id = swapSubscriptions[u].id
                     /\ swapSubscriptions'[u].subscribed
                           = swapSubscriptions[u].subscribed
                     /\ u # calls[c].user =>
                           swapSubscriptions'[u] = swapSubscriptions[u]]_vars

\* C37: the emissions of a stream follow the order of its ticks and only
\* the latest build emits: the response of a tick is emitted only if no
\* later tick has fired before its build completed.
C37_OnlyLatestBuildEmits ==
    [][\A c \in TickCalls :
          ( calls[c].pc = "building" /\ calls'[c].pc = "done"
            /\ calls'[c].result = "ok" )
          => \A l \in LaterTickCalls : calls[l].pc = "idle"]_vars

\* C37 witness: with no stream stopped, the later tick fired while the
\* earlier one was building; the response of the earlier tick was dropped
\* and the response of the later one was emitted.
C37_Witness ==
    /\ \A q \in StopCalls : calls[q].pc = "idle"
    /\ \E c \in TickCalls, l \in LaterTickCalls :
          /\ calls[c].pc = "done" /\ calls[c].result = "dropped"
          /\ calls[l].pc = "done" /\ calls[l].result = "ok"

\* C38: every registry entry whose transactionType is not TRANSFER carries
\* the active swap request and the config snapshot of its build, so the
\* catch block of signAndSendTransaction never throws "ActiveSwapRequest is
\* not set" or "Config is not set".
C38_SwapEntriesCarrySnapshot ==
    /\ \A k \in DOMAIN registry :
          registry[k].transactionType # TRANSFER
          => /\ registry[k].activeSwapRequest # NoRequest
             /\ registry[k].cfg # NoCfg
    /\ \A c \in SasCalls :
          ~( calls[c].pc = "done" /\ calls[c].result = "notset" )

\* C38 witness: a submission of a swap entry was rebuilt from the request
\* and the config of the entry while a transfer entry, which carries
\* neither, is registered.
C38_Witness ==
    /\ \E k \in DOMAIN registry : registry[k].activeSwapRequest = NoRequest
    /\ \E c \in SasCalls :
          /\ calls[c].pc = "done" /\ calls[c].result = "rebuild"
          /\ calls[c].respKey \in DOMAIN registry
          /\ registry[calls[c].respKey].transactionType # TRANSFER
          /\ registry[calls[c].respKey].cfg # NoCfg

\* what buildSwapResponse throws when the quote is not delivered
QuoteFailures == {"getSwapInstructions rejected", "No swap instruction received"}

\* the number of fee transfers in an organized list of instructions
FeeTransfersIn(instructions) ==
    Cardinality({i \in 1..Len(instructions) : instructions[i].kind = "fee"})

\* C39: every swap response returned by buildSwapResponse has hasFee = true
\* and exactly one fee-transfer instruction in its list, charged from the
\* sell token account for a BUY and from the buy token account for
\* SELL_PARTIAL and SELL_ALL; a transaction type outside these three makes
\* the build fail, with "Invalid swap type" once the route of the quote has
\* arrived, and nothing is registered.
C39_AlwaysOneFeeTransfer ==
    [][\A c \in FetchCalls :
          ( calls[c].pc = "quoting" /\ calls'[c].pc # "quoting" )
          => /\ ( calls'[c].pc = "done" /\ calls'[c].result = "ok" )
                => /\ calls[c].type \in SwapTypes
                   /\ calls'[c].message.hasFee
                   /\ FeeTransfersIn(calls'[c].message.organizedInstructions) = 1
                   /\ \A i \in 1..Len(calls'[c].message.organizedInstructions) :
                         calls'[c].message.organizedInstructions[i].kind = "fee"
                         => calls'[c].message.organizedInstructions[i].from
                              = IF calls[c].type = BUY THEN "sellTokenAccount"
                                ELSE "buyTokenAccount"
             /\ calls[c].type \notin SwapTypes
                => /\ registry' = registry
                   /\ calls'[c].result # "ok"
                   /\ calls'[c].error \in QuoteFailures \cup {"Invalid swap type"}]_vars

\* C39 witness: a sell whose fee is 0 base units was built: the response
\* has hasFee = true and the list carries the fee transfer of 0.
C39_Witness ==
    \E c \in FetchCalls :
        /\ calls[c].pc = "done" /\ calls[c].result = "ok"
        /\ calls[c].type = SELL_PARTIAL
        /\ calls[c].message.hasFee
        /\ calls[c].message.feeTransferInstruction.amount = 0
        /\ FeeTransfersIn(calls[c].message.organizedInstructions) = 1

\* a build whose transaction type is TRANSFER ended with "Invalid swap
\* type" and registered nothing
C39_InvalidSwapType ==
    \E c \in FetchCalls :
        /\ calls[c].pc = "done" /\ calls[c].result = "buildfail"
        /\ calls[c].type = TRANSFER
        /\ calls[c].error = "Invalid swap type"
        /\ c \notin DOMAIN registry
====
